---- MODULE Spec2Model ----
(***************************************************************************)
(* Model of the torch_lib registration mechanism                          *)
(* (onnxscript/function_libs/torch_lib/registration.py), of the decorator  *)
(* sites of the operator catalog (torch_lib/ops/core.py), of a few catalog *)
(* operators, and of the constant-lifting pass exercised by                *)
(* ir/passes/common/lift_constants_to_initializers_test.py.                *)
(*                                                                         *)
(* Python strings that the code inspects by prefix are sequences of        *)
(* tokens: "aten::add" is <<"aten::", "add">>, "_aten_max" is              *)
(* <<"_", "aten_max">>.  A dict is the sequence of its items in insertion  *)
(* order.  A Python return value is a record with a `kind` field.          *)
(***************************************************************************)
EXTENDS Integers, Sequences, FiniteSets, TLC

VARIABLES
    registries,   \* registry id -> Registry._registry (a dict)
    calls,        \* every Registry.register call made so far, in order
    nextId,       \* identity of the next object a decoration creates
    last,         \* the last operation: its arguments and its outcome
    lift,         \* the model handed to LiftConstantsToInitializersPass and its result
    clamp,        \* the arguments of an aten_clamp call and its result
    opcall        \* the arguments of a call of another catalog operator and its result

vars == <<registries, calls, nextId, last, lift, clamp, opcall>>

(***************************** bounds **************************************)
MaxCalls == 2          \* register calls in one behaviour
MaxNodes == 4          \* nodes of a graph handed to the lifting pass
MaxLen == 2            \* elements of a 1-D tensor
MaxVal == 2            \* largest tensor element (elements are 0..MaxVal)
Scale == 2             \* tensor elements are held in units of 1/Scale
MaxDim == 5            \* largest size of one dimension of a shape
MaxChunks == 5         \* largest `chunks` argument of aten_chunk
MaxPadRank == 3        \* largest rank of the input of aten_constant_pad_nd
MaxPad == 2            \* largest entry of a pad list (entries are 0..MaxPad)
MaxStridedRank == 2    \* largest length of size and stride of aten_as_strided
MaxSize == 2           \* largest entry of size (entries are 0..MaxSize)
MaxStride == 2         \* largest entry of stride (entries are 0..MaxStride)
MaxOffset == 1         \* largest storage_offset
MaxNumel == 6          \* largest number of elements of the strided input
MaxUnflattenRank == 2  \* largest rank of the input of aten_unflatten
MaxUnflattenDim == 2   \* largest dimension of that input and largest entry of sizes
MaxSizesLen == 2       \* largest length of sizes
MaxScatterRank == 3    \* largest rank of src of aten_slice_scatter
MaxScatterDim == 2     \* largest dimension of src (dimensions are 1..MaxScatterDim)
MaxStart == 1          \* largest start of the slice
MaxStep == 2           \* largest step of the slice
MaxExpandRank == 2     \* largest rank of self of aten_expand; size has up to one entry more
MaxExpandDim == 2      \* largest dimension of self and largest entry of size

(***************************** Python values *******************************)
None == [kind |-> "None"]
Bool(b) == [kind |-> "bool", val |-> b]
Obj(v) == [kind |-> "object", val |-> v]

StartsWith(s, prefix) ==
    /\ Len(s) >= Len(prefix)
    /\ SubSeq(s, 1, Len(prefix)) = prefix

AtenPrefix == <<"aten::">>
Aten(op) == AtenPrefix \o <<op>>

\* A plain Python function object (types.FunctionType), known by its name.
FunctionType(pyname) == [cls |-> "function", pyname |-> pyname, id |-> 0]

(***************************** dict ***************************************)
DictKeys(d) == {d[i].key : i \in 1..Len(d)}
DictHas(d, k) == k \in DictKeys(d)
DictIndex(d, k) == CHOOSE i \in 1..Len(d) : d[i].key = k
DictGet(d, k) == d[DictIndex(d, k)].value
\* dict.setdefault(k, default): the dict afterwards
DictSetDefault(d, k, default) ==
    IF DictHas(d, k) THEN d ELSE Append(d, [key |-> k, value |-> default])

(***************************** registration.py *****************************)
OverloadedFunction(name) ==
    [name |-> name, overloads |-> <<>>, privates |-> <<>>]

\* Registry.__init__
RegistryInit == <<>>

\* Registry.register that ignores its private flag
Registry_register_IgnoresPrivate(d, func, name, private) ==
    LET d1 == DictSetDefault(d, name, OverloadedFunction(name))
        i == DictIndex(d1, name)
    IN  [d1 EXCEPT ![i].value.overloads = Append(@, func)]

\* Registry.register that starts the list anew instead of appending to it
Registry_register_Replaces(d, func, name, private) ==
    LET d1 == DictSetDefault(d, name, OverloadedFunction(name))
        i == DictIndex(d1, name)
    IN  IF private
        THEN [d1 EXCEPT ![i].value.privates = <<func>>]
        ELSE [d1 EXCEPT ![i].value.overloads = <<func>>]

\* Registry.register(func, name, private=...): the _registry afterwards
Registry_register(d, func, name, private) ==
    LET d1 == DictSetDefault(d, name, OverloadedFunction(name))
        i == DictIndex(d1, name)
    IN  IF private
        THEN [d1 EXCEPT ![i].value.privates = Append(@, func)]
        ELSE [d1 EXCEPT ![i].value.overloads = Append(@, func)]

\* Registry.__getitem__ over a defaultdict: a missing name is inserted
Registry_getitem_Inserts(d, name) ==
    LET d1 == DictSetDefault(d, name, OverloadedFunction(name))
    IN  [exc |-> "none", ret |-> Obj(DictGet(d1, name)), d |-> d1]

\* Registry.__getitem__(name): exception, return value and the _registry afterwards
Registry_getitem(d, name) ==
    IF DictHas(d, name)
    THEN [exc |-> "none", ret |-> Obj(DictGet(d, name)), d |-> d]
    ELSE [exc |-> "KeyError", ret |-> None, d |-> d]

\* Registry.get_functions(name)
Registry_get_functions(d, name) ==
    IF DictHas(d, name)
    THEN [exc |-> "none", ret |-> Obj(DictGet(d, name)), d |-> d]
    ELSE [exc |-> "none", ret |-> None, d |-> d]

\* Registry.is_registered that asks for a public overload
Registry_is_registered_NeedsOverload(d, name) ==
    [exc |-> "none",
     ret |-> Bool(DictHas(d, name) /\ DictGet(d, name).overloads # <<>>),
     d |-> d]

\* Registry.is_registered(name)
Registry_is_registered(d, name) ==
    LET overloads == Registry_get_functions(d, name)
    IN  [exc |-> "none", ret |-> Bool(overloads.ret # None), d |-> overloads.d]

\* Registry.__contains__(name)
Registry_contains(d, name) ==
    [exc |-> "none", ret |-> Bool(DictHas(d, name)), d |-> d]

\* Registry.__iter__(): the keys in insertion order
Registry_iter(d) ==
    [exc |-> "none", ret |-> Obj([i \in 1..Len(d) |-> d[i].key]), d |-> d]

\* default_registry and one registry a caller constructs with Registry()
RegistryIds == {"default_registry", "r1"}

\* Keyword arguments of a call: a set of <<keyword, value>> pairs.
KwNames(kw) == {p[1] : p \in kw}
KwGet(kw, k, default) ==
    IF k \in KwNames(kw) THEN (CHOOSE p \in kw : p[1] = k)[2] ELSE default

\* The keyword-only parameters of torch_op
TorchOpParams == {"registry", "trace_only", "private"}

\* torch_op that registers in default_registry whatever registry= says
torch_op_IgnoresRegistry(name, kw) ==
    IF ~(KwNames(kw) \subseteq TorchOpParams)
    THEN [exc |-> "TypeError", ret |-> None]
    ELSE [exc |-> "none",
          ret |-> Obj([registry |-> "default_registry",
                       name |-> name,
                       trace_only |-> KwGet(kw, "trace_only", FALSE),
                       private |-> KwGet(kw, "private", FALSE)])]

\* torch_op(name, **kw): TypeError for a keyword the signature does not have,
\* otherwise the closure `wrapper` (the registry it captured, name and flags)
torch_op(name, kw) ==
    IF ~(KwNames(kw) \subseteq TorchOpParams)
    THEN [exc |-> "TypeError", ret |-> None]
    ELSE LET registry == KwGet(kw, "registry", "None")
         IN  [exc |-> "none",
              ret |-> Obj([registry |-> IF registry = "None"
                                        THEN "default_registry" ELSE registry,
                           name |-> name,
                           trace_only |-> KwGet(kw, "trace_only", FALSE),
                           private |-> KwGet(kw, "private", FALSE)])]

\* wrapper that returns the processed function but registers the raw one
wrapper_RegistersRawFunc(w, func, id) ==
    LET processed_func ==
            [cls |-> IF w.trace_only THEN "TracedOnnxFunction" ELSE "OnnxFunction",
             pyname |-> func.pyname, id |-> id]
    IN  [exc |-> "none", ret |-> Obj(processed_func),
         registered |-> <<[reg |-> w.registry, func |-> func,
                           name |-> w.name, private |-> w.private]>>]

\* wrapper(func) of the closure w; id is the identity of the object it creates.
\* registered: the Registry.register calls it makes, in order.
wrapper(w, func, id) ==
    IF w.trace_only
    THEN LET processed_func ==
                 [cls |-> "TracedOnnxFunction", pyname |-> func.pyname, id |-> id]
         IN  [exc |-> "none", ret |-> Obj(processed_func),
              registered |-> <<[reg |-> w.registry, func |-> processed_func,
                                name |-> w.name, private |-> w.private]>>]
    ELSE IF func.cls # "function"
    THEN [exc |-> "AssertionError", ret |-> None, registered |-> <<>>]
    ELSE LET processed_func ==
                 [cls |-> "OnnxFunction", pyname |-> func.pyname, id |-> id]
         IN  [exc |-> "none", ret |-> Obj(processed_func),
              registered |-> <<[reg |-> w.registry, func |-> processed_func,
                                name |-> w.name, private |-> w.private]>>]

(***************************** core.py: decorator sites ********************)
\* Decorator sites of the catalog, in source order: one site of every form in
\* which core.py calls torch_op, the sites that share "aten::max", and the
\* sites whose name or flags differ from the other 199 of the 207 sites.
Catalog == <<
    [line |-> 38,   func |-> FunctionType(<<"aten_abs">>),
     name |-> Aten("abs"), kw |-> {}],
    [line |-> 193,  func |-> FunctionType(<<"aten_all_dim">>),
     name |-> Aten("all"), kw |-> {<<"overload", TRUE>>}],
    [line |-> 341,  func |-> FunctionType(<<"aten_arange_start">>),
     name |-> Aten("arange"), kw |-> {<<"overload", TRUE>>, <<"trace_only", TRUE>>}],
    [line |-> 517,  func |-> FunctionType(<<"_", "aten_as_strided_onnx">>),
     name |-> Aten("as_strided"), kw |-> {<<"private", TRUE>>}],
    [line |-> 3307, func |-> FunctionType(<<"aten_log">>),
     name |-> <<"log">>, kw |-> {}],
    [line |-> 3583, func |-> FunctionType(<<"aten_max">>),
     name |-> Aten("max"), kw |-> {<<"trace_only", TRUE>>}],
    [line |-> 3616, func |-> FunctionType(<<"_", "aten_max_with_no_dim">>),
     name |-> Aten("max"), kw |-> {<<"private", TRUE>>}],
    [line |-> 5338, func |-> FunctionType(<<"_", "aten_scatter_reduce_onnx">>),
     name |-> Aten("scatter_reduce"), kw |-> {<<"overload", TRUE>>}]
>>

(***************************** registry operations *************************)
\* Arguments of direct Registry.register calls
RegisterFuncs == {FunctionType(<<"f">>), FunctionType(<<"g">>)}
RegisterNames == {Aten("max")}
\* Names looked up; Aten("nonexistent") is registered by nobody
LookupNames == {Aten("max"), Aten("nonexistent")}
\* registry= argument of torch_op: omitted ("None") or a Registry the caller made
RegistryArgs == {"None", "r1"}

RECURSIVE ApplyCalls(_, _)
\* The registries after the register calls cs, made in order
ApplyCalls(regs, cs) ==
    IF cs = <<>> THEN regs
    ELSE LET c == Head(cs)
         IN  ApplyCalls([regs EXCEPT ![c.reg] =
                             Registry_register(@, c.func, c.name, c.private)],
                        Tail(cs))

IdleLift == [pc |-> "idle"]
IdleClamp == [pc |-> "idle"]
IdleOp == [pc |-> "idle"]

Init ==
    /\ registries = [r \in RegistryIds |-> RegistryInit]
    /\ calls = <<>>
    /\ nextId = 1
    /\ last = [op |-> "none", args |-> [reg |-> "None"], exc |-> "none", ret |-> None]
    /\ lift = IdleLift
    /\ clamp = IdleClamp
    /\ opcall = IdleOp

\* registry.register(func, name, private=private)
Register(r, func, name, private) ==
    /\ Len(calls) < MaxCalls
    /\ LET c == [reg |-> r, func |-> func, name |-> name, private |-> private]
       IN  /\ registries' = ApplyCalls(registries, <<c>>)
           /\ calls' = Append(calls, c)
           /\ last' = [op |-> "register", args |-> c, exc |-> "none", ret |-> None]
    /\ UNCHANGED <<nextId, lift, clamp, opcall>>

\* @torch_op(name, **kw) def func: the decorator call, then the decoration
TorchOp(site, regarg) ==
    /\ Len(calls) < MaxCalls
    /\ LET kw == site.kw \cup (IF regarg = "None" THEN {} ELSE {<<"registry", regarg>>})
           args == [site |-> site, reg |-> regarg]
           t == torch_op(site.name, kw)
       IN  IF t.exc # "none"
           THEN /\ last' = [op |-> "torch_op", args |-> args, exc |-> t.exc, ret |-> None]
                /\ UNCHANGED <<registries, calls, nextId>>
           ELSE LET w == wrapper(t.ret.val, site.func, nextId)
                IN  /\ registries' = ApplyCalls(registries, w.registered)
                    /\ calls' = calls \o w.registered
                    /\ nextId' = nextId + 1
                    /\ last' = [op |-> "torch_op", args |-> args,
                                exc |-> w.exc, ret |-> w.ret]
    /\ UNCHANGED <<lift, clamp, opcall>>

\* One of the read operations of Registry, on registry r
Lookup(op, r, name, result) ==
    /\ registries' = [registries EXCEPT ![r] = result.d]
    /\ last' = [op |-> op, args |-> [reg |-> r, name |-> name],
                exc |-> result.exc, ret |-> result.ret]
    /\ UNCHANGED <<calls, nextId, lift, clamp, opcall>>

GetItem(r, name) ==
    Lookup("getitem", r, name, Registry_getitem(registries[r], name))
GetFunctions(r, name) ==
    Lookup("get_functions", r, name, Registry_get_functions(registries[r], name))
IsRegistered(r, name) ==
    Lookup("is_registered", r, name, Registry_is_registered(registries[r], name))
Contains(r, name) ==
    Lookup("contains", r, name, Registry_contains(registries[r], name))
Iter(r) ==
    Lookup("iter", r, <<>>, Registry_iter(registries[r]))

Next ==
    \/ \E r \in RegistryIds, func \in RegisterFuncs, name \in RegisterNames,
          private \in BOOLEAN : Register(r, func, name, private)
    \/ \E i \in 1..Len(Catalog), regarg \in RegistryArgs : TorchOp(Catalog[i], regarg)
    \/ \E r \in RegistryIds, name \in LookupNames : GetItem(r, name)
    \/ \E r \in RegistryIds, name \in LookupNames : GetFunctions(r, name)
    \/ \E r \in RegistryIds, name \in LookupNames : IsRegistered(r, name)
    \/ \E r \in RegistryIds, name \in LookupNames : Contains(r, name)
    \/ \E r \in RegistryIds : Iter(r)

Spec == Init /\ [][Next]_vars

(***************************** properties **********************************)
AllNames == RegisterNames \cup LookupNames \cup {Catalog[i].name : i \in 1..Len(Catalog)}
LookupOps == {"getitem", "get_functions", "is_registered", "contains", "iter"}

\* The functions of the register calls made on registry r under name with the
\* given private flag, in call order
RegisteredFuncs(r, name, private) ==
    LET Mine(c) == c.reg = r /\ c.name = name /\ c.private = private
        mine == SelectSeq(calls, Mine)
    IN  [i \in 1..Len(mine) |-> mine[i].func]

EverRegistered(r, name) ==
    \E i \in 1..Len(calls) : calls[i].reg = r /\ calls[i].name = name

SeqElems(q) == {q[i] : i \in 1..Len(q)}

\* The registry that torch_op(..., registry=regarg) registers in
TargetRegistry(regarg) == IF regarg = "None" THEN "default_registry" ELSE regarg

\* C1: in every registry and for every name, overloads is exactly the sequence
\* of functions registered under that name with private=False, in order and
\* with duplicates, and privates exactly the sequence registered with
\* private=True; so a registration lands in the bucket its flag names and in no other.
C1_BucketsAreTheRegistrations ==
    \A r \in RegistryIds : \A name \in AllNames :
        IF DictHas(registries[r], name)
        THEN LET e == DictGet(registries[r], name)
             IN  /\ e.name = name
                 /\ e.overloads = RegisteredFuncs(r, name, FALSE)
                 /\ e.privates = RegisteredFuncs(r, name, TRUE)
        ELSE /\ RegisteredFuncs(r, name, FALSE) = <<>>
             /\ RegisteredFuncs(r, name, TRUE) = <<>>

\* C1 witness: a function registered twice publicly under one name is kept twice
C1_Witness ==
    \E r \in RegistryIds :
        /\ DictHas(registries[r], Aten("max"))
        /\ LET e == DictGet(registries[r], Aten("max"))
           IN  /\ Len(e.overloads) = 2
               /\ e.overloads[1] = e.overloads[2]

\* C2: is_registered(name), `name in registry` and get_functions(name) is not
\* None agree, and are true exactly for the names register was called with,
\* private or not; iterating yields exactly those names.
C2_RegisteredIffRegisterCalled ==
    \A r \in RegistryIds :
        /\ \A name \in AllNames :
              /\ Registry_is_registered(registries[r], name).ret = Bool(EverRegistered(r, name))
              /\ Registry_contains(registries[r], name).ret = Bool(EverRegistered(r, name))
              /\ (Registry_get_functions(registries[r], name).ret.kind # "None")
                    <=> EverRegistered(r, name)
        /\ SeqElems(Registry_iter(registries[r]).ret.val)
              = {name \in AllNames : EverRegistered(r, name)}
        /\ Len(Registry_iter(registries[r]).ret.val)
              = Cardinality({name \in AllNames : EverRegistered(r, name)})

\* C2 witness: a name with private helpers only is reported as registered,
\* with an empty overloads list
C2_Witness ==
    \E r \in RegistryIds : \E name \in AllNames :
        /\ Registry_is_registered(registries[r], name).ret = Bool(TRUE)
        /\ DictGet(registries[r], name).overloads = <<>>
        /\ DictGet(registries[r], name).privates # <<>>

\* C3: registry[name] of a name never registered raises KeyError and
\* get_functions(name) returns None; no read operation changes a registry.
C3_MissingNameLookup ==
    /\ [](last.op = "getitem" /\ ~EverRegistered(last.args.reg, last.args.name)
            => last.exc = "KeyError")
    /\ [](last.op = "get_functions" /\ ~EverRegistered(last.args.reg, last.args.name)
            => last.exc = "none" /\ last.ret = None)
    /\ [][last'.op \in LookupOps => registries' = registries]_vars

\* C3 witness: registry[name] raised KeyError on a registry that holds other names
C3_Witness ==
    /\ last.op = "getitem"
    /\ last.exc = "KeyError"
    /\ registries[last.args.reg] # <<>>

\* C4 (as claimed): every torch_op call of the catalog is accepted and ends in a
\* registration under its name.
C4_CatalogFormsAccepted ==
    last.op = "torch_op" =>
        /\ last.exc = "none"
        /\ DictHas(registries[TargetRegistry(last.args.reg)], last.args.site.name)

\* C5: torch_op without registry= registers in default_registry, with registry=
\* in that registry; every other registry is left as it was.
C5_RegistersInTargetOnly ==
    [][nextId' # nextId =>
         LET target == TargetRegistry(last'.args.reg)
             name == last'.args.site.name
         IN  /\ DictHas(registries'[target], name)
             /\ last'.ret.val \in SeqElems(DictGet(registries'[target], name).overloads)
                                  \cup SeqElems(DictGet(registries'[target], name).privates)
             /\ registries'[target] # registries[target]
             /\ \A r \in RegistryIds \ {target} : registries'[r] = registries[r]
      ]_vars

\* C5 witness: a function decorated with registry=r1 is in r1 while
\* default_registry holds an earlier registration
C5_Witness ==
    /\ last.op = "torch_op"
    /\ last.exc = "none"
    /\ last.args.reg = "r1"
    /\ registries["default_registry"] # <<>>
    /\ DictHas(registries["r1"], last.args.site.name)

\* C6: a decoration makes exactly one register call, under the site's name and
\* private flag, of the object it returns: a TracedOnnxFunction when
\* trace_only, else an OnnxFunction, never the raw function.
C6_DecorationRegistersWhatItReturns ==
    [][nextId' # nextId =>
         LET site == last'.args.site
             c == calls'[Len(calls')]
             e == DictGet(registries'[c.reg], c.name)
             bucket == IF c.private THEN e.privates ELSE e.overloads
         IN  /\ Len(calls') = Len(calls) + 1
             /\ c.name = site.name
             /\ c.private = KwGet(site.kw, "private", FALSE)
             /\ c.func = last'.ret.val
             /\ c.func.cls = IF KwGet(site.kw, "trace_only", FALSE)
                             THEN "TracedOnnxFunction" ELSE "OnnxFunction"
             /\ c.func # site.func
             /\ bucket[Len(bucket)] = last'.ret.val
      ]_vars

\* C6 witness: a trace_only decoration returned the TracedOnnxFunction that is
\* now the last overload of its name
C6_Witness ==
    /\ last.op = "torch_op"
    /\ last.exc = "none"
    /\ last.ret.val.cls = "TracedOnnxFunction"
    /\ LET e == DictGet(registries[TargetRegistry(last.args.reg)], last.args.site.name)
       IN  e.overloads # <<>> /\ e.overloads[Len(e.overloads)] = last.ret.val

\* C7 (as claimed): a catalog function whose Python name starts with "_" is
\* registered with private=True: once decorated it is in the privates bucket
\* of its name and not in the overloads bucket.
C7_UnderscoreFunctionsArePrivate ==
    (last.op = "torch_op" /\ StartsWith(last.args.site.func.pyname, <<"_">>)) =>
        /\ KwGet(last.args.site.kw, "private", FALSE)
        /\ last.exc = "none"
        /\ LET e == DictGet(registries[TargetRegistry(last.args.reg)], last.args.site.name)
           IN  /\ last.ret.val \in SeqElems(e.privates)
               /\ last.ret.val \notin SeqElems(e.overloads)

\* C8 (as claimed): every key of default_registry starts with "aten::".
C8_KeysAreAtenNames ==
    \A key \in DictKeys(registries["default_registry"]) : StartsWith(key, AtenPrefix)

IsPrefix(a, b) == Len(a) <= Len(b) /\ SubSeq(b, 1, Len(a)) = a

\* C19: the registry only grows: across every registry operation a registered
\* name stays registered, and its overloads and privates lists before the
\* operation are prefixes of the lists after it (nothing is removed, replaced
\* or reordered); by transitivity the same holds between any earlier and any
\* later state.
C19_RegistryOnlyGrows ==
    [][\A r \in RegistryIds : \A name \in AllNames :
         DictHas(registries[r], name) =>
            /\ DictHas(registries'[r], name)
            /\ IsPrefix(DictGet(registries[r], name).overloads,
                        DictGet(registries'[r], name).overloads)
            /\ IsPrefix(DictGet(registries[r], name).privates,
                        DictGet(registries'[r], name).privates)]_vars

\* C19 witness: a name whose bucket has grown twice, once in each list
C19_Witness ==
    \E r \in RegistryIds : \E name \in AllNames :
        /\ DictHas(registries[r], name)
        /\ Len(DictGet(registries[r], name).overloads) >= 1
        /\ Len(DictGet(registries[r], name).privates) >= 1

(***************************** constant lifting ****************************)
\* The graphs of the pass's test, generalised: two graph inputs, then a chain
\* of nodes.  A Constant node carries either a tensor `value` attribute or
\* an integer `value_int` attribute; every other node is a binary operator
\* fed by the node before it (input_a for the first node) and by input_b.
NodeKinds == {"ConstantTensor", "ConstantInt", "Add", "Mul"}

ValueRef(name, producer) == [name |-> name, producer |-> producer]

MakeNode(kinds, k) ==
    LET kind == kinds[k]
        prev == IF k = 1 THEN ValueRef(<<"input_a">>, "input")
                ELSE ValueRef(<<"val", k - 1>>, "node")
    IN  IF kind = "ConstantTensor"
        THEN [op_type |-> "Constant", domain |-> "",
              attributes |-> {[name |-> "value", type |-> "TENSOR", value |-> k]},
              inputs |-> <<>>, output |-> <<"val", k>>]
        ELSE IF kind = "ConstantInt"
        THEN [op_type |-> "Constant", domain |-> "",
              attributes |-> {[name |-> "value_int", type |-> "INT", value |-> k]},
              inputs |-> <<>>, output |-> <<"val", k>>]
        ELSE [op_type |-> kind, domain |-> "", attributes |-> {},
              inputs |-> <<prev, ValueRef(<<"input_b">>, "input")>>,
              output |-> <<"val", k>>]

\* ir.Model(graph=ir.Graph(inputs, outputs, nodes)): no initializers; the graph
\* output is produced by the last node, an operator
MakeModel(kinds) ==
    [inputs |-> <<ValueRef(<<"input_a">>, "input"), ValueRef(<<"input_b">>, "input")>>,
     nodes |-> [k \in 1..Len(kinds) |-> MakeNode(kinds, k)],
     initializers |-> {}]

TestModels ==
    {MakeModel(kinds) : kinds \in
        {ks \in UNION {[1..n -> NodeKinds] : n \in 0..MaxNodes} :
            Len(ks) > 0 => ks[Len(ks)] \in {"Add", "Mul"}}}

\* A Constant node carrying a tensor `value` attribute
HasTensorValue(node) ==
    /\ node.op_type = "Constant"
    /\ node.domain = ""
    /\ \E a \in node.attributes : a.name = "value" /\ a.type = "TENSOR"

TensorValue(node) ==
    (CHOOSE a \in node.attributes : a.name = "value" /\ a.type = "TENSOR").value

\* replace_all_uses_with(old output, initializer) over the nodes
ReplaceAllUsesWith(nodes, name) ==
    [k \in 1..Len(nodes) |->
        [nodes[k] EXCEPT !.inputs =
            [j \in 1..Len(@) |-> IF @[j].name = name
                                 THEN ValueRef(name, "initializer") ELSE @[j]]]]

RemoveNode(nodes, name) ==
    LET Others(n) == n.output # name IN SelectSeq(nodes, Others)

\* A pass that registers the initializer and leaves the Constant node in place
LiftNodeKeepsNode(graph, node) ==
    [graph EXCEPT
        !.initializers = @ \cup {[name |-> node.output, const_value |-> TensorValue(node)]}]

\* One iteration of the pass on a liftable node: register the initializer named
\* after the node's output, redirect the uses, remove the node
LiftNode(graph, node) ==
    [graph EXCEPT
        !.initializers = @ \cup {[name |-> node.output, const_value |-> TensorValue(node)]},
        !.nodes = RemoveNode(ReplaceAllUsesWith(@, node.output), node.output)]

RECURSIVE LiftLoop(_, _, _)
\* The loop of the pass over the nodes `todo` of the graph
LiftLoop(todo, graph, count) ==
    IF todo = <<>> THEN [model |-> graph, modified |-> count # 0]
    ELSE IF HasTensorValue(Head(todo))
    THEN LiftLoop(Tail(todo), LiftNode(graph, Head(todo)), count + 1)
    ELSE LiftLoop(Tail(todo), graph, count)

\* LiftConstantsToInitializersPass()(model): the PassResult
LiftConstantsToInitializersPass(model) == LiftLoop(model.nodes, model, 0)

InitLift ==
    /\ registries = [r \in RegistryIds |-> RegistryInit]
    /\ calls = <<>>
    /\ nextId = 1
    /\ last = [op |-> "none", args |-> [reg |-> "None"], exc |-> "none", ret |-> None]
    /\ clamp = IdleClamp
    /\ opcall = IdleOp
    /\ \E m \in TestModels : lift = [pc |-> "built", model |-> m]

RunLiftPass ==
    /\ lift.pc = "built"
    /\ lift' = [pc |-> "done", model |-> lift.model,
                result |-> LiftConstantsToInitializersPass(lift.model)]
    /\ UNCHANGED <<registries, calls, nextId, last, clamp, opcall>>

NextLift == RunLiftPass

SpecLift == InitLift /\ [][NextLift]_vars

TensorConstants(nodes) == {k \in 1..Len(nodes) : HasTensorValue(nodes[k])}
OtherNodes(nodes) ==
    LET Other(n) == ~HasTensorValue(n)
        others == SelectSeq(nodes, Other)
    IN  [k \in 1..Len(others) |-> [op_type |-> others[k].op_type,
                                    attributes |-> others[k].attributes,
                                    output |-> others[k].output]]

\* C9: on a model with Constant nodes carrying a tensor `value`, the pass
\* reports modified, leaves no such Constant node, adds exactly one initializer
\* per Constant node removed, and keeps the other nodes in place.
C9_ConstantsBecomeInitializers ==
    (lift.pc = "done" /\ TensorConstants(lift.model.nodes) # {}) =>
        LET before == lift.model
            after == lift.result.model
        IN  /\ lift.result.modified
            /\ TensorConstants(after.nodes) = {}
            /\ Cardinality(after.initializers) - Cardinality(before.initializers)
                  = Len(before.nodes) - Len(after.nodes)
            /\ Len(before.nodes) - Len(after.nodes)
                  = Cardinality(TensorConstants(before.nodes))
            /\ OtherNodes(after.nodes) = OtherNodes(before.nodes)

\* C9 witness: the test's case, from 0 initializers and 1 Constant node to
\* 1 initializer and 0 Constant nodes, the Add and Mul nodes remaining
C9_Witness ==
    /\ lift.pc = "done"
    /\ lift.model.initializers = {}
    /\ Len(lift.model.nodes) = 3
    /\ Cardinality(TensorConstants(lift.model.nodes)) = 1
    /\ lift.result.modified
    /\ Cardinality(lift.result.model.initializers) = 1
    /\ [k \in 1..2 |-> lift.result.model.nodes[k].op_type] = <<"Add", "Mul">>

(***************************** core.py: aten_clamp *************************)
\* A tensor: dtype, shape (<<>> for a scalar, <<n>> for 1-D) and its elements
\* in row-major order.  Elements are held in units of 1/Scale, so that FLOAT
\* tensors have fractional elements; INT64 elements are multiples of Scale.
DTypes == {"INT64", "FLOAT"}
Tensor(dtype, shape, vals) ==
    [kind |-> "tensor", dtype |-> dtype, shape |-> shape, vals |-> vals]

\* Cast of one element between dtypes: to INT64 it truncates toward zero
CastElem(v, from, to) ==
    IF to = "INT64" /\ from # "INT64"
    THEN IF v >= 0 THEN Scale * (v \div Scale) ELSE -(Scale * ((-v) \div Scale))
    ELSE v

\* op.CastLike(x, like): x in the dtype of like
CastLike(x, like) ==
    Tensor(like.dtype, x.shape, [i \in 1..Len(x.vals) |-> CastElem(x.vals[i], x.dtype, like.dtype)])

\* Element i of tensor t broadcast to a 1-D or scalar shape
BroadcastElem(t, i) == IF t.shape = <<>> THEN t.vals[1] ELSE t.vals[i]
BroadcastShape(a, b) == IF a.shape = <<>> THEN b.shape ELSE a.shape
BroadcastSize(a, b) == IF Len(a.vals) >= Len(b.vals) THEN Len(a.vals) ELSE Len(b.vals)

\* op.Max(a, b) and op.Min(a, b), elementwise with broadcasting
OpMax(a, b) ==
    Tensor(a.dtype, BroadcastShape(a, b),
           [i \in 1..BroadcastSize(a, b) |->
               IF BroadcastElem(a, i) >= BroadcastElem(b, i)
               THEN BroadcastElem(a, i) ELSE BroadcastElem(b, i)])
OpMin(a, b) ==
    Tensor(a.dtype, BroadcastShape(a, b),
           [i \in 1..BroadcastSize(a, b) |->
               IF BroadcastElem(a, i) <= BroadcastElem(b, i)
               THEN BroadcastElem(a, i) ELSE BroadcastElem(b, i)])

\* aten_clamp with the upper bound applied before the lower bound
aten_clamp_MaxBoundFirst(self, min, max) ==
    IF min = None /\ max = None THEN self
    ELSE LET clamped1 == IF max # None THEN OpMin(self, CastLike(max, self)) ELSE self
         IN  IF min # None THEN OpMax(clamped1, CastLike(min, self)) ELSE clamped1

\* aten_clamp(self, min=None, max=None)
aten_clamp(self, min, max) ==
    IF min = None /\ max = None THEN self
    ELSE LET clamped1 == IF min # None
                         THEN LET min_clamp == CastLike(min, self)
                              IN  OpMax(self, min_clamp)
                         ELSE self
         IN  IF max # None
             THEN LET max_clamp == CastLike(max, self)
                  IN  OpMin(clamped1, max_clamp)
             ELSE clamped1

\* Arguments of the signature (self: TReal, min: Optional[TReal], max:
\* Optional[TReal]): a 1-D tensor and bounds of the same dtype, each absent or a scalar
ElemsOf(dtype) ==
    IF dtype = "INT64" THEN {Scale * k : k \in 0..MaxVal} ELSE 0..(Scale * MaxVal)
ClampSelfs(dtype) ==
    {Tensor(dtype, <<Len(vals)>>, vals) :
        vals \in UNION {[1..n -> ElemsOf(dtype)] : n \in 1..MaxLen}}
ClampBounds(dtype) ==
    {None} \cup {Tensor(dtype, <<>>, <<v>>) : v \in ElemsOf(dtype)}

InitClamp ==
    /\ registries = [r \in RegistryIds |-> RegistryInit]
    /\ calls = <<>>
    /\ nextId = 1
    /\ last = [op |-> "none", args |-> [reg |-> "None"], exc |-> "none", ret |-> None]
    /\ lift = IdleLift
    /\ opcall = IdleOp
    /\ \E dtype \in DTypes :
         \E self \in ClampSelfs(dtype), min \in ClampBounds(dtype), max \in ClampBounds(dtype) :
            clamp = [pc |-> "called", self |-> self, min |-> min, max |-> max]

Clamp ==
    /\ clamp.pc = "called"
    /\ clamp' = [clamp EXCEPT !.pc = "done"] @@
                 [result |-> aten_clamp(clamp.self, clamp.min, clamp.max)]
    /\ UNCHANGED <<registries, calls, nextId, last, lift, opcall>>

NextClamp == Clamp

SpecClamp == InitClamp /\ [][NextClamp]_vars

Larger(a, b) == IF a >= b THEN a ELSE b
Smaller(a, b) == IF a <= b THEN a ELSE b

\* C10: aten_clamp computes Min(Max(self, min), max) element by element, so
\* that with min > max every element is max; with only min it is
\* Max(self, min), with only max Min(self, max), with neither it is self.
C10_ClampLowerBoundFirst ==
    clamp.pc = "done" =>
        LET self == clamp.self
            lo == clamp.min
            hi == clamp.max
            res == clamp.result
        IN  /\ res.dtype = self.dtype
            /\ res.shape = self.shape
            /\ Len(res.vals) = Len(self.vals)
            /\ \A i \in 1..Len(self.vals) :
                  /\ (lo = None /\ hi = None) => res.vals[i] = self.vals[i]
                  /\ (lo # None /\ hi = None) =>
                        res.vals[i] = Larger(self.vals[i], lo.vals[1])
                  /\ (lo = None /\ hi # None) =>
                        res.vals[i] = Smaller(self.vals[i], hi.vals[1])
                  /\ (lo # None /\ hi # None) =>
                        /\ res.vals[i] = Smaller(Larger(self.vals[i], lo.vals[1]), hi.vals[1])
                        /\ lo.vals[1] > hi.vals[1] => res.vals[i] = hi.vals[1]

\* C10 witness: a call with min > max and an element above min returned max everywhere
C10_Witness ==
    /\ clamp.pc = "done"
    /\ clamp.min # None
    /\ clamp.max # None
    /\ clamp.min.vals[1] > clamp.max.vals[1]
    /\ \E i \in 1..Len(clamp.self.vals) : clamp.self.vals[i] > clamp.min.vals[1]
    /\ \A i \in 1..Len(clamp.result.vals) : clamp.result.vals[i] = clamp.max.vals[1]

(***************************** core.py: aten_contiguous ********************)
\* The registry part of a state in which only a catalog operator is called
RegistryUntouched ==
    /\ registries = [r \in RegistryIds |-> RegistryInit]
    /\ calls = <<>>
    /\ nextId = 1
    /\ last = [op |-> "none", args |-> [reg |-> "None"], exc |-> "none", ret |-> None]
    /\ lift = IdleLift
    /\ clamp = IdleClamp

\* The outcome of a catalog operator: the exception raised, the value
\* returned and the ONNX operators emitted, in order
Returned(ret, ops) == [exc |-> "none", ret |-> ret, ops |-> ops]
Raised(exc) == [exc |-> exc, ret |-> None, ops |-> <<>>]

\* aten_contiguous that is the identity for every memory_format
aten_contiguous_AnyFormat(self, memory_format) ==
    Returned(self, <<"Identity">>)

\* aten_contiguous(self, memory_format="contiguous_format")
aten_contiguous(self, memory_format) ==
    IF memory_format \in {"contiguous_format", "preserve_format"}
    THEN Returned(self, <<"Identity">>)
    ELSE Raised("NotImplementedError")

\* torch.memory_format values, as strings
MemoryFormats ==
    {"contiguous_format", "preserve_format", "channels_last", "channels_last_3d", ""}

InitContiguous ==
    /\ RegistryUntouched
    /\ \E dtype \in DTypes : \E self \in ClampSelfs(dtype), fmt \in MemoryFormats :
          opcall = [pc |-> "called", op |-> "aten_contiguous",
                    self |-> self, memory_format |-> fmt]

Contiguous ==
    /\ opcall.pc = "called"
    /\ opcall.op = "aten_contiguous"
    /\ opcall' = [opcall EXCEPT !.pc = "done"] @@
                  [result |-> aten_contiguous(opcall.self, opcall.memory_format)]
    /\ UNCHANGED <<registries, calls, nextId, last, lift, clamp>>

NextContiguous == Contiguous

SpecContiguous == InitContiguous /\ [][NextContiguous]_vars

\* C11: aten_contiguous returns Identity(self) for "contiguous_format" and
\* "preserve_format", and raises NotImplementedError, emitting no operator,
\* for every other memory_format.
C11_ContiguousFormats ==
    (opcall.pc = "done" /\ opcall.op = "aten_contiguous") =>
        IF opcall.memory_format \in {"contiguous_format", "preserve_format"}
        THEN /\ opcall.result.exc = "none"
             /\ opcall.result.ret = opcall.self
             /\ opcall.result.ops = <<"Identity">>
        ELSE /\ opcall.result.exc = "NotImplementedError"
             /\ opcall.result.ops = <<>>

\* C11 witness: memory_format "channels_last" raised NotImplementedError
C11_Witness ==
    /\ opcall.pc = "done"
    /\ opcall.op = "aten_contiguous"
    /\ opcall.memory_format = "channels_last"
    /\ opcall.result.exc = "NotImplementedError"
    /\ opcall.result.ops = <<>>

(***************************** core.py: aten_chunk *************************)
\* Integer op.Div and op.Mod.  A zero divisor is undefined in ONNX: the
\* backend either traps or carries on with 0 (`traps` says which); the
\* operation reports zero_div either way.
OnnxDiv(a, b, traps) ==
    IF b = 0 THEN [zero_div |-> TRUE, trapped |-> traps, val |-> 0]
    ELSE [zero_div |-> FALSE, trapped |-> FALSE,
          val |-> IF (a >= 0) = (b > 0) THEN (IF a >= 0 THEN a ELSE -a) \div (IF b > 0 THEN b ELSE -b)
                  ELSE -((IF a >= 0 THEN a ELSE -a) \div (IF b > 0 THEN b ELSE -b))]
OnnxMod(a, b, traps) ==
    IF b = 0 THEN [zero_div |-> TRUE, trapped |-> traps, val |-> 0]
    ELSE [zero_div |-> FALSE, trapped |-> FALSE, val |-> a % b]

\* op.Expand(x, [n]) of a scalar x: n copies
ExpandScalar(x, n) == [i \in 1..n |-> x]

\* The second half of aten_chunk: the split list for num_per_chunk
chunk_list_split(dim_size, num_per_chunk, zero_div, trapped, traps) ==
    LET num_chunk == OnnxDiv(dim_size, num_per_chunk, traps)
        list_split == ExpandScalar(num_per_chunk, num_chunk.val)
        remainder == OnnxMod(dim_size, num_per_chunk, traps)
    IN  [exc |-> IF trapped \/ num_chunk.trapped \/ remainder.trapped
                 THEN "ZeroDivision" ELSE "none",
         zero_div |-> zero_div \/ num_chunk.zero_div \/ remainder.zero_div,
         list_split |-> IF remainder.val > 0
                        THEN list_split \o <<remainder.val>> ELSE list_split,
         ops |-> <<"Split">>]

\* aten_chunk whose chunk length is floor(dim_size / chunks)
aten_chunk_FloorLength(self_shape, chunks, dim, traps) ==
    LET dim_size == self_shape[dim + 1]
        div == OnnxDiv(dim_size, chunks, traps)
    IN  chunk_list_split(dim_size, div.val, div.zero_div, div.trapped, traps)

\* aten_chunk(self, chunks, dim): the list handed to op.Split
aten_chunk(self_shape, chunks, dim, traps) ==
    LET dim_size == self_shape[dim + 1]
        div == OnnxDiv(dim_size, chunks, traps)
        mod == OnnxMod(dim_size, chunks, traps)
        num_per_chunk == (IF mod.val > 0 THEN 1 ELSE 0) + div.val
    IN  chunk_list_split(dim_size, num_per_chunk,
                         div.zero_div \/ mod.zero_div, div.trapped \/ mod.trapped, traps)

\* Shapes of rank 1 and 2 with dimensions 0..MaxDim
ChunkShapes == UNION {[1..r -> 0..MaxDim] : r \in 1..2}

InitChunk ==
    /\ RegistryUntouched
    /\ \E shape \in ChunkShapes, chunks \in 1..MaxChunks :
         \E dim \in 0..(Len(shape) - 1) :
            opcall = [pc |-> "called", op |-> "aten_chunk",
                      self_shape |-> shape, chunks |-> chunks, dim |-> dim]

Chunk ==
    /\ opcall.pc = "called"
    /\ opcall.op = "aten_chunk"
    /\ \E traps \in BOOLEAN :
         opcall' = [opcall EXCEPT !.pc = "done"] @@
                   [result |-> aten_chunk(opcall.self_shape, opcall.chunks, opcall.dim, traps)]
    /\ UNCHANGED <<registries, calls, nextId, last, lift, clamp>>

NextChunk == Chunk

SpecChunk == InitChunk /\ [][NextChunk]_vars

RECURSIVE SeqSum(_)
SeqSum(q) == IF q = <<>> THEN 0 ELSE Head(q) + SeqSum(Tail(q))

CeilDiv(a, b) == (a + b - 1) \div b

\* C12: for D >= 1 and chunks >= 1 the split list sums to D, has at most
\* `chunks` entries, every entry but the last is ceil(D / chunks), and the last
\* is between 1 and ceil(D / chunks).
C12_ChunkSplitSizes ==
    (opcall.pc = "done" /\ opcall.op = "aten_chunk"
        /\ opcall.self_shape[opcall.dim + 1] >= 1) =>
        LET D == opcall.self_shape[opcall.dim + 1]
            list == opcall.result.list_split
            ceil == CeilDiv(D, opcall.chunks)
        IN  /\ opcall.result.exc = "none"
            /\ SeqSum(list) = D
            /\ Len(list) >= 1
            /\ Len(list) <= opcall.chunks
            /\ \A i \in 1..(Len(list) - 1) : list[i] = ceil
            /\ list[Len(list)] >= 1
            /\ list[Len(list)] <= ceil

\* C12 witness: D = 5 in 4 chunks gives 2, 2, 1: fewer entries than chunks
\* and a shorter last entry
C12_Witness ==
    /\ opcall.pc = "done"
    /\ opcall.op = "aten_chunk"
    /\ opcall.self_shape[opcall.dim + 1] = 5
    /\ opcall.chunks = 4
    /\ opcall.result.list_split = <<2, 2, 1>>

\* C13 (as claimed): for D = 0 the split list is computed without a division
\* or modulo by zero and its entries sum to 0.
C13_EmptyDimensionHandled ==
    (opcall.pc = "done" /\ opcall.op = "aten_chunk"
        /\ opcall.self_shape[opcall.dim + 1] = 0) =>
        /\ ~opcall.result.zero_div
        /\ opcall.result.exc = "none"
        /\ SeqSum(opcall.result.list_split) = 0

(***************************** core.py: aten_constant_pad_nd ***************)
Clamp3(x, lo, hi) == IF x < lo THEN lo ELSE IF x > hi THEN hi ELSE x

RECURSIVE SliceWalk(_, _, _, _)
\* The elements data[idx], data[idx + step], ... (0-based) up to, not including, end
SliceWalk(data, idx, end, step) ==
    IF (step > 0 /\ idx >= end) \/ (step < 0 /\ idx <= end) THEN <<>>
    ELSE <<data[idx + 1]>> \o SliceWalk(data, idx + step, end, step)

\* op.Slice(data, [start], [end], [0], [step]) of a 1-D tensor: negative start
\* and end count from the back; then start is clamped to [0, n] (to [0, n-1]
\* for a negative step) and end to [0, n] (to [-1, n-1] for a negative step)
OnnxSlice1D(data, start, end, step) ==
    LET n == Len(data)
        s0 == IF start < 0 THEN start + n ELSE start
        e0 == IF end < 0 THEN end + n ELSE end
        s1 == IF step < 0 THEN Clamp3(s0, 0, n - 1) ELSE Clamp3(s0, 0, n)
        e1 == IF step < 0 THEN Clamp3(e0, -1, n - 1) ELSE Clamp3(e0, 0, n)
    IN  IF n = 0 THEN <<>> ELSE SliceWalk(data, s1, e1, step)

\* aten_constant_pad_nd that collects the end paddings before the begin paddings
aten_constant_pad_nd_EndsFirst(rank, pad) ==
    LET torch_paddings == pad \o ExpandScalar(0, rank * 2 - Len(pad))
        size_d == Len(torch_paddings)
        odd_elements == OnnxSlice1D(torch_paddings, -1, -1 - size_d, -2)
        even_elements == OnnxSlice1D(torch_paddings, -2, -2 - size_d, -2)
    IN  Returned(odd_elements \o even_elements, <<"Pad">>)

\* aten_constant_pad_nd(self, pad, value): the padding vector handed to op.Pad,
\* for self of the given rank
aten_constant_pad_nd(rank, pad) ==
    LET zero_count == rank * 2 - Len(pad)
        zeros == ExpandScalar(0, zero_count)
        torch_paddings == pad \o zeros
        size_d == Len(torch_paddings)
        steps == -2
        odd_elements == OnnxSlice1D(torch_paddings, steps, steps - size_d, steps)
        even_elements == OnnxSlice1D(torch_paddings, -1, -1 - size_d, steps)
        onnx_padding == odd_elements \o even_elements
    IN  Returned(onnx_padding, <<"Pad">>)

\* Torch pad lists for an input of rank r: 2k entries, k <= r
PadLists(r) == UNION {[1..(2 * k) -> 0..MaxPad] : k \in 0..r}

InitPad ==
    /\ RegistryUntouched
    /\ \E rank \in 1..MaxPadRank : \E pad \in PadLists(rank) :
          opcall = [pc |-> "called", op |-> "aten_constant_pad_nd",
                    rank |-> rank, pad |-> pad]

ConstantPadNd ==
    /\ opcall.pc = "called"
    /\ opcall.op = "aten_constant_pad_nd"
    /\ opcall' = [opcall EXCEPT !.pc = "done"] @@
                  [result |-> aten_constant_pad_nd(opcall.rank, opcall.pad)]
    /\ UNCHANGED <<registries, calls, nextId, last, lift, clamp>>

NextPad == ConstantPadNd

SpecPad == InitPad /\ [][NextPad]_vars

\* The begin (side = 0) or end (side = 1) padding torch gives dimension i
\* (0-based) of a rank-r input: pad lists the last dimension first
TorchPadOf(pad, r, i, side) ==
    LET m == r - 1 - i
    IN  IF 2 * m + 2 <= Len(pad) THEN pad[2 * m + 1 + side] ELSE 0

\* C14: the ONNX padding vector has length 2r; entry i is the begin padding of
\* dimension i, entry r + i its end padding, and the leading dimensions that
\* pad does not cover get 0 on both sides.
C14_OnnxPaddingOrder ==
    (opcall.pc = "done" /\ opcall.op = "aten_constant_pad_nd") =>
        LET r == opcall.rank
            onnx_padding == opcall.result.ret
        IN  /\ opcall.result.exc = "none"
            /\ Len(onnx_padding) = 2 * r
            /\ \A i \in 0..(r - 1) :
                  /\ onnx_padding[i + 1] = TorchPadOf(opcall.pad, r, i, 0)
                  /\ onnx_padding[r + i + 1] = TorchPadOf(opcall.pad, r, i, 1)

\* C14 witness: rank 3 with pad (1, 2) for the last dimension only
C14_Witness ==
    /\ opcall.pc = "done"
    /\ opcall.op = "aten_constant_pad_nd"
    /\ opcall.rank = 3
    /\ opcall.pad = <<1, 2>>
    /\ opcall.result.ret = <<0, 0, 1, 0, 0, 2>>

(***************************** n-dimensional tensors ***********************)
\* An n-d tensor is [shape, vals]: vals are the elements in row-major order.
\* Multi-indices and flat positions are 0-based.
NdTensor(shape, vals) == [shape |-> shape, vals |-> vals]
Scalar(v) == NdTensor(<<>>, <<v>>)

RECURSIVE SeqProd(_)
SeqProd(q) == IF q = <<>> THEN 1 ELSE Head(q) * SeqProd(Tail(q))
Numel(shape) == SeqProd(shape)

\* Row-major stride of dimension d (1-based) of a shape
RowStride(shape, d) == SeqProd(SubSeq(shape, d + 1, Len(shape)))
Unravel(k, shape) ==
    [d \in 1..Len(shape) |-> (k \div RowStride(shape, d)) % shape[d]]
RECURSIVE RavelFrom(_, _, _)
RavelFrom(idx, shape, d) ==
    IF d > Len(shape) THEN 0
    ELSE idx[d] * RowStride(shape, d) + RavelFrom(idx, shape, d + 1)
Ravel(idx, shape) == RavelFrom(idx, shape, 1)

\* Numpy-style broadcasting of two shapes, aligned at the last dimension
DimFromRight(shape, n, i) ==
    IF i - (n - Len(shape)) >= 1 THEN shape[i - (n - Len(shape))] ELSE 1
BroadcastRank(a, b) == IF Len(a) >= Len(b) THEN Len(a) ELSE Len(b)
Broadcastable(a, b) ==
    \A i \in 1..BroadcastRank(a, b) :
        LET da == DimFromRight(a, BroadcastRank(a, b), i)
            db == DimFromRight(b, BroadcastRank(a, b), i)
        IN  da = db \/ da = 1 \/ db = 1
BroadcastShapeNd(a, b) ==
    [i \in 1..BroadcastRank(a, b) |->
        LET da == DimFromRight(a, BroadcastRank(a, b), i)
            db == DimFromRight(b, BroadcastRank(a, b), i)
        IN  IF da = 1 THEN db ELSE da]
\* The element of t that lands at multi-index idx of the broadcast shape
ReadBroadcast(t, idx) ==
    LET off == Len(idx) - Len(t.shape)
        tidx == [d \in 1..Len(t.shape) |-> IF t.shape[d] = 1 THEN 0 ELSE idx[d + off]]
    IN  t.vals[Ravel(tidx, t.shape) + 1]

\* op.Expand(t, shape)
OpExpand(t, shape) ==
    LET out == BroadcastShapeNd(t.shape, shape)
    IN  NdTensor(out, [k \in 1..Numel(out) |-> ReadBroadcast(t, Unravel(k - 1, out))])
\* op.Add(a, b), with broadcasting
OpAdd(a, b) ==
    LET out == BroadcastShapeNd(a.shape, b.shape)
    IN  NdTensor(out, [k \in 1..Numel(out) |->
            ReadBroadcast(a, Unravel(k - 1, out)) + ReadBroadcast(b, Unravel(k - 1, out))])
\* op.Mul(a, b), with broadcasting
OpMul(a, b) ==
    LET out == BroadcastShapeNd(a.shape, b.shape)
    IN  NdTensor(out, [k \in 1..Numel(out) |->
            ReadBroadcast(a, Unravel(k - 1, out)) * ReadBroadcast(b, Unravel(k - 1, out))])
\* op.Range(0, limit, 1)
OpRange0(limit) ==
    NdTensor(<<IF limit > 0 THEN limit ELSE 0>>, [k \in 1..limit |-> k - 1])
\* op.Reshape (allowzero = 0): an entry 0 of the requested shape takes the
\* input's dimension at the same index. The shape is rejected when that index
\* is outside the input, or when the element counts differ.
ReshapeShape(in_shape, shape) ==
    [i \in 1..Len(shape) |->
        IF shape[i] = 0 /\ i <= Len(in_shape) THEN in_shape[i] ELSE shape[i]]
ReshapeValid(in_shape, shape) ==
    /\ \A i \in 1..Len(shape) : shape[i] = 0 => i <= Len(in_shape)
    /\ \A i \in 1..Len(shape) : shape[i] >= 0
    /\ Numel(ReshapeShape(in_shape, shape)) = Numel(in_shape)
OpReshape(t, shape) == NdTensor(ReshapeShape(t.shape, shape), t.vals)
\* op.Reshape(t, [-1])
OpFlatten(t) == NdTensor(<<Len(t.vals)>>, t.vals)
\* op.Gather(data, indices) on a 1-D data: IndexError for a position outside it
GatherInBounds(data, indices) ==
    \A k \in 1..Len(indices.vals) :
        indices.vals[k] >= -Len(data.vals) /\ indices.vals[k] < Len(data.vals)
OpGather1D(data, indices) ==
    NdTensor(indices.shape,
             [k \in 1..Len(indices.vals) |->
                 data.vals[(IF indices.vals[k] < 0 THEN indices.vals[k] + Len(data.vals)
                            ELSE indices.vals[k]) + 1]])

(***************************** core.py: aten_as_strided ********************)
\* add_value of one loop iteration without the multiplication by the stride
as_strided_add_value_NoStride(size_dim_j, stride_dim_j) ==
    OpRange0(size_dim_j)

\* add_value = op.Range(0, size_dim_j, 1) * stride_dim_j
as_strided_add_value(size_dim_j, stride_dim_j) ==
    OpMul(OpRange0(size_dim_j), Scalar(stride_dim_j))

RECURSIVE as_strided_loop(_, _, _, _, _)
\* The iterations i, i + 1, ..., rank - 1 of the loop, from the index tensor
\* `indices`; one_seq holds i ones when iteration i starts
as_strided_loop(i, indices, size, stride, rank) ==
    IF i >= rank THEN indices
    ELSE LET j == rank - i - 1
             size_dim_j == size[j + 1]
             size_after_j == OnnxSlice1D(size, j, rank, 1)
             stride_dim_j == stride[j + 1]
             expanded == OpExpand(indices, size_after_j)
             add_value == as_strided_add_value(size_dim_j, stride_dim_j)
             shape == IF i = 0 THEN <<size_dim_j>>
                      ELSE <<size_dim_j>> \o ExpandScalar(1, i)
         IN  as_strided_loop(i + 1, OpAdd(expanded, OpReshape(add_value, shape)),
                             size, stride, rank)

\* _aten_as_strided_onnx(self, size, stride, storage_offset, rank): the final
\* index tensor and the gathered result
aten_as_strided_onnx(self, size, stride, storage_offset, rank) ==
    LET looped == as_strided_loop(0, Scalar(0), size, stride, rank)
        self_flatten == OpFlatten(self)
        indices == OpAdd(looped, Scalar(storage_offset))
    IN  IF GatherInBounds(self_flatten, indices)
        THEN [exc |-> "none", indices |-> indices,
              ret |-> OpGather1D(self_flatten, indices), ops |-> <<"Gather">>]
        ELSE [exc |-> "IndexError", indices |-> indices, ret |-> None, ops |-> <<"Gather">>]

\* aten_as_strided(self, size, stride, storage_offset)
aten_as_strided(self, size, stride, storage_offset) ==
    LET rank == Len(stride)
    IN  aten_as_strided_onnx(self, size, stride, storage_offset, rank)

\* The inputs: a 2-row or 1-row tensor with elements that differ from their positions
StridedSelfs ==
    {NdTensor(<<n>>, [k \in 1..n |-> 2 * n - k]) : n \in 1..MaxNumel}
      \cup {NdTensor(<<2, n \div 2>>, [k \in 1..n |-> 2 * n - k]) :
              n \in {m \in 1..MaxNumel : m % 2 = 0}}

InitStrided ==
    /\ RegistryUntouched
    /\ \E r \in 1..MaxStridedRank :
         \E size \in [1..r -> 0..MaxSize], stride \in [1..r -> 0..MaxStride],
            storage_offset \in 0..MaxOffset, self \in StridedSelfs :
            opcall = [pc |-> "called", op |-> "aten_as_strided", self |-> self,
                      size |-> size, stride |-> stride, storage_offset |-> storage_offset]

AsStrided ==
    /\ opcall.pc = "called"
    /\ opcall.op = "aten_as_strided"
    /\ opcall' = [opcall EXCEPT !.pc = "done"] @@
                  [result |-> aten_as_strided(opcall.self, opcall.size, opcall.stride,
                                              opcall.storage_offset)]
    /\ UNCHANGED <<registries, calls, nextId, last, lift, clamp>>

NextStrided == AsStrided

SpecStrided == InitStrided /\ [][NextStrided]_vars

RECURSIVE DotFrom(_, _, _)
DotFrom(idx, stride, d) ==
    IF d > Len(idx) THEN 0 ELSE idx[d] * stride[d] + DotFrom(idx, stride, d + 1)

INT64_MAX == 2147483647

\* aten_unflatten(self, dim, sizes), on the shape of self
aten_unflatten(self_size, dim, sizes) ==
    LET self_rank == Len(self_size)
        dim1 == self_rank + dim
        dim2 == OnnxMod(dim1, self_rank, FALSE).val
        head_part_rank == OnnxSlice1D(self_size, 0, dim2, 1)
        tail_part_rank == OnnxSlice1D(self_size, dim2 + 1, INT64_MAX, 1)
        final_shape == head_part_rank \o sizes \o tail_part_rank
    IN  IF ReshapeValid(self_size, final_shape)
        THEN Returned([shape |-> ReshapeShape(self_size, final_shape)], <<"Reshape">>)
        ELSE Raised("InvalidShape")

UnflattenShapes == UNION {[1..r -> 0..MaxUnflattenDim] : r \in 1..MaxUnflattenRank}
UnflattenSizes == UNION {[1..n -> 0..MaxUnflattenDim] : n \in 1..MaxSizesLen}

InitUnflatten ==
    /\ RegistryUntouched
    /\ \E self_size \in UnflattenShapes, sizes \in UnflattenSizes :
         \E dim \in (-Len(self_size))..(Len(self_size) - 1) :
            opcall = [pc |-> "called", op |-> "aten_unflatten", self_size |-> self_size,
                      dim |-> dim, sizes |-> sizes]

Unflatten ==
    /\ opcall.pc = "called"
    /\ opcall.op = "aten_unflatten"
    /\ opcall' = [opcall EXCEPT !.pc = "done"] @@
                  [result |-> aten_unflatten(opcall.self_size, opcall.dim, opcall.sizes)]
    /\ UNCHANGED <<registries, calls, nextId, last, lift, clamp>>

NextUnflatten == Unflatten

SpecUnflatten == InitUnflatten /\ [][NextUnflatten]_vars

\* The dimension (1-based) that dim names in a tensor of rank r
WrappedDim(dim, r) == (IF dim < 0 THEN dim + r ELSE dim) + 1
\* torch.unflatten's result shape
UnflattenedShape(shape, dim, sizes) ==
    SubSeq(shape, 1, WrappedDim(dim, Len(shape)) - 1) \o sizes
        \o SubSeq(shape, WrappedDim(dim, Len(shape)) + 1, Len(shape))

\* C16: for a tensor of rank r >= 1, dim in [-r, r-1] and sizes whose product
\* is shape[d], d = dim mod r, aten_unflatten reshapes to
\* shape[0..d-1] ++ sizes ++ shape[d+1..r-1], of rank r - 1 + len(sizes); dim
\* and dim + r give the same target shape.
C16_UnflattenShape ==
    (/\ opcall.pc = "done"
     /\ opcall.op = "aten_unflatten"
     /\ SeqProd(opcall.sizes) = opcall.self_size[WrappedDim(opcall.dim, Len(opcall.self_size))]) =>
        /\ opcall.result.exc = "none"
        /\ opcall.result.ret.shape = UnflattenedShape(opcall.self_size, opcall.dim, opcall.sizes)
        /\ Len(opcall.result.ret.shape) = Len(opcall.self_size) - 1 + Len(opcall.sizes)
        /\ opcall.dim < 0 =>
              opcall.result = aten_unflatten(opcall.self_size,
                                             opcall.dim + Len(opcall.self_size), opcall.sizes)

(***************************** core.py: aten_slice_scatter *****************)
\* Python lists are sequences; list(range(0, n)) is <<0, ..., n - 1>>
PyRange(n) == [i \in 1..n |-> i - 1]
\* list.insert(i, x): a negative i counts from the back, and an i outside the
\* list is moved to the nearer end
PyListInsert(list, i, x) ==
    LET n == Len(list)
        i0 == IF i < 0 THEN i + n ELSE i
        at == Clamp3(i0, 0, n)
    IN  SubSeq(list, 1, at) \o <<x>> \o SubSeq(list, at + 1, n)
\* list.pop(-1) of a non-empty list: the element removed and the list left
PyListPopLast(list) ==
    [item |-> list[Len(list)], list |-> SubSeq(list, 1, Len(list) - 1)]

\* op.Range(start, limit, delta) for a positive delta
OpRange(start, limit, delta) ==
    LET count == IF limit > start THEN (limit - start + delta - 1) \div delta ELSE 0
    IN  NdTensor(<<count>>, [k \in 1..count |-> start + (k - 1) * delta])
\* op.Transpose(t, perm): perm must be a permutation of the axes 0..rank-1
TransposeValid(t, perm) ==
    /\ Len(perm) = Len(t.shape)
    /\ \A a \in 0..(Len(t.shape) - 1) : \E i \in 1..Len(perm) : perm[i] = a
OpTranspose(t, perm) ==
    LET out == [i \in 1..Len(perm) |-> t.shape[perm[i] + 1]]
        \* the multi-index of t that lands at multi-index idx of the output
        Source(idx) == [a \in 1..Len(perm) |->
                          idx[CHOOSE i \in 1..Len(perm) : perm[i] = a - 1]]
    IN  NdTensor(out, [k \in 1..Numel(out) |->
                          t.vals[Ravel(Source(Unravel(k - 1, out)), t.shape) + 1]])

\* _aten_slice_scatter_onnx(self, src, start, end, step, dim, perm), up to the
\* index tensor handed to op.ScatterElements
aten_slice_scatter_onnx(src_shape, start, end, step, dim, perm) ==
    LET last_dim == Len(src_shape)
        shape_before_dim == OnnxSlice1D(src_shape, 0, dim, 1)
        shape_after_dim == OnnxSlice1D(src_shape, dim + 1, last_dim, 1)
        shape_expand == shape_before_dim \o shape_after_dim \o <<1>>
        index_base == OpRange(start, end, step)
        index_expand == OpExpand(index_base, shape_expand)
    IN  IF TransposeValid(index_expand, perm)
        THEN [exc |-> "none", perm |-> perm, shape_expand |-> shape_expand,
              indices |-> OpTranspose(index_expand, perm), ops |-> <<"ScatterElements">>]
        ELSE [exc |-> "InvalidPerm", perm |-> perm, shape_expand |-> shape_expand,
              indices |-> None, ops |-> <<>>]

\* aten_slice_scatter(self, src, dim, start, end, step), for src of rank >= 1
aten_slice_scatter(src_shape, dim, start, end, step) ==
    LET last_ == Len(src_shape)
        popped == PyListPopLast(PyRange(last_))
        perm == PyListInsert(popped.list, dim, popped.item)
    IN  aten_slice_scatter_onnx(src_shape, start, end, step, dim, perm)

ScatterShapes == UNION {[1..r -> 1..MaxScatterDim] : r \in 1..MaxScatterRank}

\* end - start covers the size of src along dim (the comment at lines 5531-5534)
InitScatter ==
    /\ RegistryUntouched
    /\ \E src_shape \in ScatterShapes, start \in 0..MaxStart, step \in 1..MaxStep :
         \E dim \in (-Len(src_shape))..(Len(src_shape) - 1) :
            opcall = [pc |-> "called", op |-> "aten_slice_scatter", src_shape |-> src_shape,
                      dim |-> dim, start |-> start, step |-> step,
                      end |-> start + step * src_shape[WrappedDim(dim, Len(src_shape))]]

SliceScatter ==
    /\ opcall.pc = "called"
    /\ opcall.op = "aten_slice_scatter"
    /\ opcall' = [opcall EXCEPT !.pc = "done"] @@
                  [result |-> aten_slice_scatter(opcall.src_shape, opcall.dim, opcall.start,
                                                 opcall.end, opcall.step)]
    /\ UNCHANGED <<registries, calls, nextId, last, lift, clamp>>

NextScatter == SliceScatter

SpecScatter == InitScatter /\ [][NextScatter]_vars

\* C17: for src of rank r and every dim in [-r, -1], the permutation and the
\* expanded index shape built by aten_slice_scatter are those built for the
\* non-negative dimension dim + r.
C17_NegativeDimAsWrapped ==
    (opcall.pc = "done" /\ opcall.op = "aten_slice_scatter" /\ opcall.dim < 0) =>
        LET wrapped == aten_slice_scatter(opcall.src_shape, opcall.dim + Len(opcall.src_shape),
                                          opcall.start, opcall.end, opcall.step)
        IN  /\ opcall.result.perm = wrapped.perm
            /\ opcall.result.shape_expand = wrapped.shape_expand

(***************************** core.py: aten_expand ************************)
\* op.Abs on a 1-D integer tensor
OpAbs(x) == [i \in 1..Len(x) |-> IF x[i] < 0 THEN -x[i] ELSE x[i]]
\* op.Cast(size, to=INT64) on a 1-D integer tensor: wraps into the 64-bit
\* range, which leaves every value of the model as it is
CastInt64(x) ==
    [i \in 1..Len(x) |->
        IF x[i] > INT64_MAX THEN x[i] - INT64_MAX - INT64_MAX - 2
        ELSE IF x[i] < -INT64_MAX - 1 THEN x[i] + INT64_MAX + INT64_MAX + 2
        ELSE x[i]]

\* aten_expand that hands size to op.Expand as it is
aten_expand_NoAbs(self, size) ==
    LET size1 == CastInt64(size)
    IN  IF (\A i \in 1..Len(size1) : size1[i] >= 0) /\ Broadcastable(self.shape, size1)
        THEN [exc |-> "none", expand_size |-> size1, ret |-> OpExpand(self, size1),
              ops |-> <<"Cast", "Expand">>]
        ELSE [exc |-> "InvalidShape", expand_size |-> size1, ret |-> None,
              ops |-> <<"Cast", "Expand">>]

\* aten_expand(self, size): op.Expand rejects shapes that do not broadcast
aten_expand(self, size) ==
    LET size1 == CastInt64(size)
        size2 == OpAbs(size1)
    IN  IF (\A i \in 1..Len(size2) : size2[i] >= 0) /\ Broadcastable(self.shape, size2)
        THEN [exc |-> "none", expand_size |-> size2, ret |-> OpExpand(self, size2),
              ops |-> <<"Cast", "Abs", "Expand">>]
        ELSE [exc |-> "InvalidShape", expand_size |-> size2, ret |-> None,
              ops |-> <<"Cast", "Abs", "Expand">>]

ExpandSelfs ==
    {NdTensor(shape, [k \in 1..Numel(shape) |-> k]) :
        shape \in UNION {[1..r -> 0..MaxExpandDim] : r \in 0..MaxExpandRank}}
ExpandSizes == UNION {[1..n -> (-1)..MaxExpandDim] : n \in 1..(MaxExpandRank + 1)}

InitExpand ==
    /\ RegistryUntouched
    /\ \E self \in ExpandSelfs, size \in ExpandSizes :
            opcall = [pc |-> "called", op |-> "aten_expand", self |-> self, size |-> size]

Expand ==
    /\ opcall.pc = "called"
    /\ opcall.op = "aten_expand"
    /\ opcall' = [opcall EXCEPT !.pc = "done"] @@
                  [result |-> aten_expand(opcall.self, opcall.size)]
    /\ UNCHANGED <<registries, calls, nextId, last, lift, clamp>>

NextExpand == Expand

SpecExpand == InitExpand /\ [][NextExpand]_vars

\* The sizes torch.expand accepts for a shape: at least as many entries as the
\* shape has dimensions; an entry over a dimension is -1, the dimension, or any
\* positive number when the dimension is 1; an entry for a new leading
\* dimension is positive
TorchExpandable(shape, size) ==
    /\ Len(size) >= Len(shape)
    /\ \A i \in 1..Len(size) :
          LET d == i - (Len(size) - Len(shape))
          IN  /\ size[i] = -1 \/ size[i] > 0
              /\ d < 1 => size[i] > 0
              /\ d >= 1 => (size[i] = -1 \/ size[i] = shape[d] \/ shape[d] = 1)

\* C18: for every size whose entries are -1 or positive and broadcast
\* compatible with self's shape, dimension i of the result (right-aligned) is
\* self's dimension where size[i] is -1 and size[i] elsewhere; op.Expand is
\* handed the absolute values of size.
C18_ExpandMinusOneKeepsDim ==
    (/\ opcall.pc = "done"
     /\ opcall.op = "aten_expand"
     /\ TorchExpandable(opcall.self.shape, opcall.size)) =>
        /\ opcall.result.exc = "none"
        /\ opcall.result.expand_size =
              [i \in 1..Len(opcall.size) |->
                  IF opcall.size[i] < 0 THEN -opcall.size[i] ELSE opcall.size[i]]
        /\ Len(opcall.result.ret.shape) = Len(opcall.size)
        /\ \A i \in 1..Len(opcall.size) :
              opcall.result.ret.shape[i] =
                  IF opcall.size[i] = -1
                  THEN opcall.self.shape[i - (Len(opcall.size) - Len(opcall.self.shape))]
                  ELSE opcall.size[i]

\* C18 witness: self of shape (1, 2) expanded with size (2, -1) has shape (2, 2)
C18_Witness ==
    /\ opcall.pc = "done"
    /\ opcall.op = "aten_expand"
    /\ opcall.self.shape = <<1, 2>>
    /\ opcall.size = <<2, -1>>
    /\ opcall.result.exc = "none"
    /\ opcall.result.ret.shape = <<2, 2>>
    /\ opcall.result.ret.vals = <<1, 2, 1, 2>>

====
